---- MODULE Spec2Model ----
\* Model of the user API of src/app.py: the users table of the store and the
\* request handlers that read and write it.  Each handler runs in its own
\* database session (one per request thread); an action is one statement the
\* handler sends to the store, or one read of the clock, so that requests of
\* different threads interleave between statements as they do on the threaded
\* server with the store's default READ COMMITTED isolation.
EXTENDS Integers, Sequences, FiniteSets, TLC

\* ------------------------------------------------------------------ bounds
\* Largest value the id sequence may reach (five seeded rows, then inserts).
MaxSeq == 7
\* Largest instant the clock may reach.
MaxClock == 2

\* -------------------------------------------------------------------- text
\* Rows and requests hold strings; substring search, LIKE patterns and case
\* folding are computed on a string's characters.
\* The characters of every string the model uses.
Chars ==
       "" :> <<>>
    @@ "admin" :> <<"a", "d", "m", "i", "n">>
    @@ "john_doe" :> <<"j", "o", "h", "n", "_", "d", "o", "e">>
    @@ "jane_smith" :> <<"j", "a", "n", "e", "_", "s", "m", "i", "t", "h">>
    @@ "bob_wilson" :> <<"b", "o", "b", "_", "w", "i", "l", "s", "o", "n">>
    @@ "alice_brown" :> <<"a", "l", "i", "c", "e", "_", "b", "r", "o", "w", "n">>
    @@ "admin@example.com" :> <<"a", "d", "m", "i", "n", "@", "e", "x", "a", "m", "p", "l", "e", ".", "c", "o", "m">>
    @@ "john@example.com" :> <<"j", "o", "h", "n", "@", "e", "x", "a", "m", "p", "l", "e", ".", "c", "o", "m">>
    @@ "jane@example.com" :> <<"j", "a", "n", "e", "@", "e", "x", "a", "m", "p", "l", "e", ".", "c", "o", "m">>
    @@ "bob@example.com" :> <<"b", "o", "b", "@", "e", "x", "a", "m", "p", "l", "e", ".", "c", "o", "m">>
    @@ "alice@example.com" :> <<"a", "l", "i", "c", "e", "@", "e", "x", "a", "m", "p", "l", "e", ".", "c", "o", "m">>
    @@ "Administrator" :> <<"A", "d", "m", "i", "n", "i", "s", "t", "r", "a", "t", "o", "r">>
    @@ "John Doe" :> <<"J", "o", "h", "n", " ", "D", "o", "e">>
    @@ "Jane Smith" :> <<"J", "a", "n", "e", " ", "S", "m", "i", "t", "h">>
    @@ "Bob Wilson" :> <<"B", "o", "b", " ", "W", "i", "l", "s", "o", "n">>
    @@ "Alice Brown" :> <<"A", "l", "i", "c", "e", " ", "B", "r", "o", "w", "n">>
    @@ "neo" :> <<"n", "e", "o">>
    @@ "neo@example.com" :> <<"n", "e", "o", "@", "e", "x", "a", "m", "p", "l", "e", ".", "c", "o", "m">>
    @@ "Neo" :> <<"N", "e", "o">>
    @@ "JOHN" :> <<"J", "O", "H", "N">>
    @@ "_" :> <<"_">>
    @@ "%" :> <<"%">>
    @@ "true" :> <<"t", "r", "u", "e">>
    @@ "TRUE" :> <<"T", "R", "U", "E">>
    @@ "false" :> <<"f", "a", "l", "s", "e">>
Upper == <<"A", "B", "C", "D", "E", "F", "G", "H", "I", "J", "K", "L", "M", "N", "O", "P", "Q", "R", "S", "T", "U", "V", "W", "X", "Y", "Z">>
Lower == <<"a", "b", "c", "d", "e", "f", "g", "h", "i", "j", "k", "l", "m", "n", "o", "p", "q", "r", "s", "t", "u", "v", "w", "x", "y", "z">>

Min(a, b) == IF a < b THEN a ELSE b
Max(a, b) == IF a > b THEN a ELSE b

\* str.lower() and the case folding of ILIKE, on one character.
LowerChar(c) ==
    IF \E i \in DOMAIN Upper : Upper[i] = c
    THEN Lower[CHOOSE i \in DOMAIN Upper : Upper[i] = c]
    ELSE c

LowerText(s) == [i \in DOMAIN s |-> LowerChar(s[i])]

RECURSIVE Like(_, _)
\* The store's LIKE: % matches any run of characters, _ any one character,
\* a backslash makes the next pattern character literal.
Like(t, p) ==
    IF p = <<>> THEN t = <<>>
    ELSE IF Head(p) = "%"
        THEN Like(t, Tail(p)) \/ (t /= <<>> /\ Like(Tail(t), p))
    ELSE IF Head(p) = "\\" /\ Len(p) >= 2
        THEN t /= <<>> /\ Head(t) = p[2] /\ Like(Tail(t), Tail(Tail(p)))
    ELSE t /= <<>> /\ (Head(p) = "_" \/ Head(p) = Head(t)) /\ Like(Tail(t), Tail(p))

\* column.ilike(pattern): LIKE on the case-folded text and pattern.
Ilike(t, p) == Like(LowerText(t), LowerText(p))

\* f'%{search}%': the search text is pasted into the pattern as it is.
SearchPattern(search) == <<"%">> \o search \o <<"%">>

\* ------------------------------------------------------------------ inputs
Threads == {"t1", "t2"}
\* request.args.get('is_active', None): no value, or <<the value given>>.
None == << >>
Some(v) == <<v>>

\* Ids named by GET, PUT and DELETE /api/users/{id}: the first seeded user and
\* the id the first insert receives (no user has it before that insert).
TargetIds == {1, 6}

\* JSON bodies of POST /api/users.
CreateBodies ==
    { [username |-> "neo", email |-> "neo@example.com", full_name |-> "Neo"],
      [username |-> "admin", email |-> "neo@example.com", full_name |-> "Neo", role |-> "admin"],
      [username |-> "neo", email |-> "admin@example.com", full_name |-> "Neo", is_active |-> FALSE],
      [username |-> "admin", email |-> "neo@example.com"] }

\* JSON bodies of PUT /api/users/{id}.
UpdateBodies ==
    { << >>,
      [username |-> "neo"],
      [username |-> "neo", email |-> "john@example.com"],
      [role |-> "moderator", is_active |-> FALSE] }

SearchStrings == { "", "JOHN", "_", "%" }
RoleParams == { "", "user" }
ActiveParams == { None, Some("true"), Some("TRUE"), Some("false") }

\* Query strings of GET /api/users: the filters, and the page asked for.
Filters == [search : SearchStrings, role : RoleParams, is_active : ActiveParams]
PageParams == {1, 2}
PerPageParams == {1, 2}

\* ------------------------------------------------------------------- store
VARIABLES
    heap,   \* the committed rows of table users, in the order a scan returns them
    seq,    \* last value drawn from the id sequence of users.id
    now,    \* last instant read from the clock
    pc,     \* per thread: the statement its handler runs next
    req,    \* per thread: the request being handled
    sess,   \* per thread: what its session holds (loaded object, pending values)
    resp,   \* the response sent by the last step, if it sent one
    step,   \* the last step taken: <<thread, action>>
    race,   \* per thread: outcome of a create that raced with the other thread's
    proc    \* the server process: how far its start-up has come

vars == <<heap, seq, now, pc, req, sess, resp, step, race, proc>>

NoReq == [op |-> "none"]
NoSess == [kind |-> "none"]
NoResp == [op |-> "none", status |-> 0]
NoRace == [st |-> "no"]

\* User(...) as inserted by create_tables: role given, is_active by default.
SeedUser(i, un, em, fn, ro) ==
    [id |-> i, username |-> un, email |-> em, full_name |-> fn, role |-> ro,
     is_active |-> TRUE, created_at |-> 0, updated_at |-> 0]

sample_users ==
    << SeedUser(1, "admin", "admin@example.com", "Administrator", "admin"),
       SeedUser(2, "john_doe", "john@example.com", "John Doe", "user"),
       SeedUser(3, "jane_smith", "jane@example.com", "Jane Smith", "moderator"),
       SeedUser(4, "bob_wilson", "bob@example.com", "Bob Wilson", "user"),
       SeedUser(5, "alice_brown", "alice@example.com", "Alice Brown", "user") >>

Rows(h) == { h[i] : i \in DOMAIN h }
Ids(h) == { h[i].id : i \in DOMAIN h }
RowOf(h, id) == CHOOSE u \in Rows(h) : u.id = id
WithoutFrom(h, id) == SelectSeq(h, LAMBDA u : u.id < id)

\* The table after DELETE FROM users WHERE id = ...
Without(h, id) == SelectSeq(h, LAMBDA u : u.id /= id)

UniqueViolationUsernameOnly(h, u) ==
    \E v \in Rows(h) : v.id /= u.id /\ v.username = u.username

UniqueViolationEmailOnly(h, u) ==
    \E v \in Rows(h) : v.id /= u.id /\ v.email = u.email

\* The UNIQUE constraints on username and email: would storing row u beside
\* the other rows of h break one of them?
UniqueViolation(h, u) ==
    \E v \in Rows(h) : v.id /= u.id /\ (v.username = u.username \/ v.email = u.email)

\* User.to_dict()
to_dict(u) ==
    [id |-> u.id, username |-> u.username, email |-> u.email,
     full_name |-> u.full_name, role |-> u.role, is_active |-> u.is_active,
     created_at |-> u.created_at, updated_at |-> u.updated_at]

\* ------------------------------------------------------------ get_users
\* Every text a row can hold: the seeded users' and the request bodies'.
StoredTexts ==
    UNION { {u.username, u.email, u.full_name} : u \in Rows(sample_users) }
    \cup UNION { { b[f] : f \in DOMAIN b \cap {"username", "email", "full_name"} } :
                 b \in CreateBodies \cup UpdateBodies }

\* column.ilike(f'%{search}%'), tabulated once over the texts a row can hold.
SearchHits ==
    [s \in SearchStrings |-> { t \in StoredTexts : Ilike(Chars[t], SearchPattern(Chars[s])) }]

\* db.or_ of the three ilike tests.
SearchFilter(u, search) ==
    \/ u.username \in SearchHits[search]
    \/ u.email \in SearchHits[search]
    \/ u.full_name \in SearchHits[search]

ActiveBoolExact(is_active) == is_active = "true"

\* is_active.lower() == 'true'
ActiveBool(is_active) == LowerText(Chars[is_active]) = Chars["true"]

\* The filters get_users adds to the query, each only when its parameter is set.
Keep(u, q) ==
    /\ (q.search /= "" => SearchFilter(u, q.search))
    /\ (q.role /= "" => u.role = q.role)
    /\ (q.is_active /= None => u.is_active = ActiveBool(q.is_active[1]))

\* The filtered query, evaluated on the rows h: no ORDER BY, so the rows come
\* in the order the scan of the table returns them.
Query(h, q) == SelectSeq(h, LAMBDA u : Keep(u, q))

OffsetOffByOne(q) == q.page * q.per_page

\* offset = (page - 1) * per_page
Offset(q) == (q.page - 1) * q.per_page

\* query.offset(offset).limit(per_page).all()
OffsetLimit(s, offset, limit) == SubSeq(s, offset + 1, Min(Len(s), offset + limit))

PagesFloor(total, per_page) == total \div per_page

\* (total + per_page - 1) // per_page
Pages(total, per_page) == (total + per_page - 1) \div per_page

Pagination(q, total) ==
    [page |-> q.page, per_page |-> q.per_page, total |-> total,
     pages |-> Pages(total, q.per_page),
     has_next |-> q.page < Pages(total, q.per_page),
     has_prev |-> q.page > 1]

\* ---------------------------------------------------------------- helpers
Other(t) == CHOOSE u \in Threads : u /= t

\* Requests are handled by the process that has come to serve.
Serving == proc.phase = "serving"

\* A handler returns: the response goes out and the request's session ends.
Return(t, r) ==
    /\ Serving
    /\ UNCHANGED proc
    /\ pc' = [pc EXCEPT ![t] = "idle"]
    /\ req' = [req EXCEPT ![t] = NoReq]
    /\ sess' = [sess EXCEPT ![t] = NoSess]
    /\ resp' = r

\* A handler goes on to its next statement.
Goto(t, label, r, s) ==
    /\ Serving
    /\ UNCHANGED proc
    /\ pc' = [pc EXCEPT ![t] = label]
    /\ req' = [req EXCEPT ![t] = r]
    /\ sess' = [sess EXCEPT ![t] = s]
    /\ resp' = NoResp

Error(t, op, r, status, msg) ==
    [op |-> op, t |-> t, status |-> status, req |-> r, error |-> msg]

\* --------------------------------------------------------------- start-up
\* The scripts that start the server: startup.py main(), and app.py run as a
\* script.
EntryPoints == {"startup.py", "app.py"}

\* test_database_connection() returns True, returns False (it catches what
\* its own statements raise), or the import of the module raises.
TestOutcomes == {"true", "false", "raises"}

\* The statement of create_tables that raises, if one does.
InitFailures == {"none", "select1", "create_all", "count", "commit"}

\* app.run: the server socket is bound, or the call raises.
RunOutcomes == {"bound", "raises"}

\* A process that has just been started from script entry; child: it is the
\* process the reloader of app.run(debug=True) spawned, which runs the script
\* again from its first line and is the one that serves.
Started(entry, child) ==
    [phase |-> "start", entry |-> entry, child |-> child,
     test |-> "none", init |-> "none", exit |-> None]

ExitIgnored(p) == [p EXCEPT !.phase = IF p.init = "none" THEN "tested" ELSE "initialised"]

\* sys.exit(1), and an exception that leaves the script: the process ends with
\* status 1 (the reloader's parent ends with the status of its child).
Exit(p) == [p EXCEPT !.phase = "exited", !.exit = Some(1)]

\* The server process once start-up is over and it serves requests.
Served ==
    [Started("startup.py", TRUE) EXCEPT !.phase = "serving", !.test = "true", !.init = "done"]

\* Nothing of the request handlers has run.
Quiet ==
    /\ pc = [t \in Threads |-> "idle"]
    /\ req = [t \in Threads |-> NoReq]
    /\ sess = [t \in Threads |-> NoSess]
    /\ resp = NoResp
    /\ race = [t \in Threads |-> NoRace]

\* startup.py main(): the connectivity test, before app is imported.
ConnectivityTest(outcome) ==
    /\ proc.phase = "start"
    /\ proc.entry = "startup.py"
    /\ proc' = IF outcome = "true"
               THEN [proc EXCEPT !.phase = "tested", !.test = outcome]
               ELSE Exit([proc EXCEPT !.test = outcome])
    /\ step' = <<"main", "ConnectivityTest">>
    /\ UNCHANGED <<heap, seq, now, pc, req, sess, resp, race>>

\* create_tables(): SELECT 1, db.create_all(), the count of users and, when
\* there is none, the five sample users in one commit.  A statement that
\* raises ends create_tables and the script; a failed commit is rolled back.
CreateTables(failure) ==
    /\ \/ proc.phase = "tested"
       \/ proc.phase = "start" /\ proc.entry = "app.py"
    /\ failure = "commit" => Len(heap) = 0
    /\ IF failure = "none"
       THEN /\ proc' = [proc EXCEPT !.phase = "initialised", !.init = "done"]
            /\ heap' = IF Len(heap) = 0 THEN sample_users ELSE heap
            /\ seq' = IF Len(heap) = 0 THEN seq + Len(sample_users) ELSE seq
       ELSE /\ proc' = Exit([proc EXCEPT !.init = "raises"])
            /\ UNCHANGED <<heap, seq>>
    /\ step' = <<"main", "CreateTables">>
    /\ UNCHANGED <<now, pc, req, sess, resp, race>>

\* app.run(debug=True, ...): debug turns the reloader on, so the process
\* started from the command line spawns a child that runs the script again and
\* waits for it; the child's app.run serves.
AppRun(outcome) ==
    /\ proc.phase = "initialised"
    /\ proc' = IF outcome = "raises" THEN Exit(proc)
               ELSE IF proc.child THEN [proc EXCEPT !.phase = "serving"]
               ELSE Started(proc.entry, TRUE)
    /\ step' = <<"main", "AppRun">>
    /\ UNCHANGED <<heap, seq, now, pc, req, sess, resp, race>>

Startup ==
    \/ \E outcome \in TestOutcomes : ConnectivityTest(outcome)
    \/ \E failure \in InitFailures : CreateTables(failure)
    \/ \E outcome \in RunOutcomes : AppRun(outcome)

\* The serving process over a database that create_tables has seeded.
Init ==
    /\ proc = Served
    /\ heap = sample_users
    /\ seq = Len(sample_users)
    /\ now = 0
    /\ pc = [t \in Threads |-> "idle"]
    /\ req = [t \in Threads |-> NoReq]
    /\ sess = [t \in Threads |-> NoSess]
    /\ resp = NoResp
    /\ step = << >>
    /\ race = [t \in Threads |-> NoRace]

\* GET /api/users, first statement: total = query.count()
ListCount(t, f) ==
    /\ pc[t] = "idle"
    /\ Goto(t, "list_fetch",
            [op |-> "list", search |-> f.search, role |-> f.role, is_active |-> f.is_active],
            [kind |-> "count", total |-> Len(Query(heap, f))])
    /\ step' = <<t, "ListCount">>
    /\ race' = [race EXCEPT ![t] = NoRace]
    /\ UNCHANGED <<heap, seq, now>>

\* GET /api/users, second statement: query.offset(offset).limit(per_page).all(),
\* then the response.  page and per_page are first used here.
ListFetch(t, page, per_page) ==
    /\ pc[t] = "list_fetch"
    /\ LET q == [op |-> "list", page |-> page, per_page |-> per_page,
                 search |-> req[t].search, role |-> req[t].role,
                 is_active |-> req[t].is_active]
           users == OffsetLimit(Query(heap, q), Offset(q), q.per_page)
       IN Return(t, [op |-> "list", t |-> t, status |-> 200, req |-> q,
                     users |-> [i \in DOMAIN users |-> to_dict(users[i])],
                     pagination |-> Pagination(q, sess[t].total)])
    /\ step' = <<t, "ListFetch">>
    /\ UNCHANGED <<heap, seq, now, race>>

\* GET /api/users/{id}
GetUser(t, id) ==
    /\ pc[t] = "idle"
    /\ LET r == [op |-> "get", id |-> id]
       IN IF id \notin Ids(heap)
          THEN Return(t, Error(t, "get", r, 404, "User not found"))
          ELSE Return(t, [op |-> "get", t |-> t, status |-> 200, req |-> r,
                          user |-> to_dict(RowOf(heap, id))])
    /\ step' = <<t, "GetUser">>
    /\ race' = [race EXCEPT ![t] = NoRace]
    /\ UNCHANGED <<heap, seq, now>>

\* ----------------------------------------------------------- create_user
\* not data.get(field): the field is absent or empty.
Missing(b, f) == f \notin DOMAIN b \/ b[f] = ""

\* The first of required_fields the body lacks, "" when it has them all.
FirstMissing(b) ==
    IF Missing(b, "username") THEN "username"
    ELSE IF Missing(b, "email") THEN "email"
    ELSE IF Missing(b, "full_name") THEN "full_name"
    ELSE ""

RequiredMessage(f) ==
    CASE f = "username" -> "username is required"
      [] f = "email" -> "email is required"
      [] f = "full_name" -> "full_name is required"

\* User(username=..., role=data.get('role', 'user'), is_active=data.get('is_active', True)),
\* with the id the sequence gives and both timestamps defaulting to the clock.
NewUser(b, id, stamp) ==
    [id |-> id, username |-> b.username, email |-> b.email, full_name |-> b.full_name,
     role |-> IF "role" \in DOMAIN b THEN b.role ELSE "user",
     is_active |-> IF "is_active" \in DOMAIN b THEN b.is_active ELSE TRUE,
     created_at |-> stamp, updated_at |-> stamp]

\* db.session.query(User).filter_by(username=data['username']).first()
UsernameTaken(h, username) == \E u \in Rows(h) : u.username = username

EmailTakenComparesUsername(h, email) == \E u \in Rows(h) : u.username = email

\* db.session.query(User).filter_by(email=data['email']).first()
EmailTaken(h, email) == \E u \in Rows(h) : u.email = email

\* Two bodies whose inserts cannot both succeed.
Collide(a, b) == a.username = b.username \/ a.email = b.email

\* The table after the UPDATE: the row's new version is a new tuple, which a
\* scan of the table meets after the tuples that were there before.
Rewrite(h, new) == Append(Without(h, new.id), new)

RollbackKeepsStamp(h, new) ==
    IF new.id \in Ids(h)
    THEN Rewrite(h, [RowOf(h, new.id) EXCEPT !.updated_at = new.updated_at])
    ELSE h

\* except: db.session.rollback(): nothing of the failed flush of row new stays.
Rollback(h, new) == h

\* POST /api/users: the required fields, then the username lookup.
CreateCheckUsername(t, b) ==
    /\ pc[t] = "idle"
    /\ LET r == [op |-> "create", body |-> b]
       IN IF FirstMissing(b) /= ""
          THEN Return(t, Error(t, "create", r, 400, RequiredMessage(FirstMissing(b))))
          ELSE IF UsernameTaken(heap, b.username)
          THEN Return(t, Error(t, "create", r, 400, "Username already exists"))
          ELSE Goto(t, "create_email", r, NoSess)
    /\ step' = <<t, "CreateCheckUsername">>
    /\ race' = [race EXCEPT ![t] = NoRace]
    /\ UNCHANGED <<heap, seq, now>>

\* POST /api/users: the email lookup.
CreateCheckEmail(t) ==
    /\ pc[t] = "create_email"
    /\ LET b == req[t].body
           o == Other(t)
           racing == pc[o] = "create_insert" /\ Collide(b, req[o].body)
       IN IF EmailTaken(heap, b.email)
          THEN /\ Return(t, Error(t, "create", req[t], 400, "Email already exists"))
               /\ race' = race
          ELSE /\ Goto(t, "create_insert", req[t], NoSess)
               /\ race' = IF racing
                          THEN [x \in Threads |-> [st |-> "racing"]]
                          ELSE race
    /\ step' = <<t, "CreateCheckEmail">>
    /\ UNCHANGED <<heap, seq, now>>

\* POST /api/users: db.session.add(user); db.session.commit().  The flush draws
\* the id and the timestamps, the INSERT fails on a UNIQUE constraint or the
\* row is committed; on failure the handler rolls back and answers 500.
CreateCommit(t) ==
    /\ pc[t] = "create_insert"
    /\ seq < MaxSeq
    /\ now < MaxClock
    /\ LET b == req[t].body
           user == NewUser(b, seq + 1, now + 1)
           ok == ~UniqueViolation(heap, user)
           r == IF ok
                THEN [op |-> "create", t |-> t, status |-> 201, req |-> req[t],
                      user |-> to_dict(user)]
                ELSE Error(t, "create", req[t], 500, "IntegrityError")
       IN /\ heap' = IF ok THEN Append(heap, user) ELSE Rollback(heap, user)
          /\ Return(t, r)
          /\ race' = IF race[t].st = "racing"
                     THEN [race EXCEPT ![t] =
                             [st |-> "done", status |-> r.status, inserted |-> heap' /= heap,
                              username |-> b.username, email |-> b.email]]
                     ELSE race
    /\ seq' = seq + 1
    /\ now' = now + 1
    /\ step' = <<t, "CreateCommit">>

\* ----------------------------------------------------------- update_user
UpdateFields == {"username", "email", "full_name", "role", "is_active"}

\* PUT /api/users/{id}: db.session.get(User, user_id)
UpdateLoad(t, id, b) ==
    /\ pc[t] = "idle"
    /\ LET r == [op |-> "update", id |-> id, body |-> b]
       IN IF id \notin Ids(heap)
          THEN Return(t, Error(t, "update", r, 404, "User not found"))
          ELSE Goto(t, "update_assign", r, [kind |-> "user", loaded |-> RowOf(heap, id)])
    /\ step' = <<t, "UpdateLoad">>
    /\ race' = [race EXCEPT ![t] = NoRace]
    /\ UNCHANGED <<heap, seq, now>>

\* PUT: the assignments of the body's fields and user.updated_at = datetime.utcnow()
UpdateAssign(t) ==
    /\ pc[t] = "update_assign"
    /\ now < MaxClock
    /\ now' = now + 1
    /\ Goto(t, "update_commit", req[t],
            [kind |-> "user", loaded |-> sess[t].loaded, updated_at |-> now + 1])
    /\ step' = <<t, "UpdateAssign">>
    /\ UNCHANGED <<heap, seq, race>>

\* The columns the flush writes: the assigned attributes whose value differs
\* from the loaded one.
Changed(b, loaded) == { f \in UpdateFields \cap DOMAIN b : b[f] /= loaded[f] }

\* The row after UPDATE users SET <changed columns>, updated_at WHERE id = ...
Updated(cur, b, loaded, stamp) ==
    [f \in DOMAIN cur |->
        IF f \in Changed(b, loaded) THEN b[f]
        ELSE IF f = "updated_at" THEN stamp
        ELSE cur[f]]

\* PUT: db.session.commit().  The UPDATE matches no row (StaleDataError), breaks
\* a UNIQUE constraint (IntegrityError), or is committed.
UpdateCommit(t) ==
    /\ pc[t] = "update_commit"
    /\ LET id == req[t].id
           b == req[t].body
       IN IF id \notin Ids(heap)
          THEN /\ heap' = heap
               /\ Return(t, Error(t, "update", req[t], 500, "StaleDataError"))
          ELSE LET new == Updated(RowOf(heap, id), b, sess[t].loaded, sess[t].updated_at)
               IN IF UniqueViolation(heap, new)
                  THEN /\ heap' = Rollback(heap, new)
                       /\ Return(t, Error(t, "update", req[t], 500, "IntegrityError"))
                  ELSE /\ heap' = Rewrite(heap, new)
                       /\ Return(t, [op |-> "update", t |-> t, status |-> 200,
                                     req |-> req[t], user |-> to_dict(new)])
    /\ step' = <<t, "UpdateCommit">>
    /\ UNCHANGED <<seq, now, race>>

\* ----------------------------------------------------------- delete_user
\* DELETE /api/users/{id}: db.session.get(User, user_id)
DeleteLoad(t, id) ==
    /\ pc[t] = "idle"
    /\ LET r == [op |-> "delete", id |-> id]
       IN IF id \notin Ids(heap)
          THEN Return(t, Error(t, "delete", r, 404, "User not found"))
          ELSE Goto(t, "delete_commit", r, [kind |-> "user", loaded |-> RowOf(heap, id)])
    /\ step' = <<t, "DeleteLoad">>
    /\ race' = [race EXCEPT ![t] = NoRace]
    /\ UNCHANGED <<heap, seq, now>>

\* DELETE: db.session.delete(user); db.session.commit()
DeleteCommit(t) ==
    /\ pc[t] = "delete_commit"
    /\ heap' = Without(heap, req[t].id)
    /\ Return(t, [op |-> "delete", t |-> t, status |-> 200, req |-> req[t],
                  message |-> "User deleted successfully"])
    /\ step' = <<t, "DeleteCommit">>
    /\ UNCHANGED <<seq, now, race>>

\* ------------------------------------------------------------- get_stats
\* GET /api/stats, first query: total_users = query(User).count()
StatsTotal(t) ==
    /\ pc[t] = "idle"
    /\ Goto(t, "stats_active", [op |-> "stats"],
            [kind |-> "stats", total_users |-> Len(heap), active_users |-> 0])
    /\ step' = <<t, "StatsTotal">>
    /\ race' = [race EXCEPT ![t] = NoRace]
    /\ UNCHANGED <<heap, seq, now>>

\* Second query: active_users = query(User).filter_by(is_active=True).count()
StatsActive(t) ==
    /\ pc[t] = "stats_active"
    /\ Goto(t, "stats_roles", req[t],
            [sess[t] EXCEPT !.active_users = Len(SelectSeq(heap, LAMBDA u : u.is_active = TRUE))])
    /\ step' = <<t, "StatsActive">>
    /\ UNCHANGED <<heap, seq, now, race>>

\* query(User.role, func.count(User.id)).group_by(User.role).all() as a dict
RoleDistribution(h) ==
    [r \in { u.role : u \in Rows(h) } |-> Cardinality({ u \in Rows(h) : u.role = r })]

\* Third query, then the response; inactive_users = total_users - active_users
StatsRoles(t) ==
    /\ pc[t] = "stats_roles"
    /\ Return(t, [op |-> "stats", t |-> t, status |-> 200, req |-> req[t],
                  total_users |-> sess[t].total_users,
                  active_users |-> sess[t].active_users,
                  inactive_users |-> sess[t].total_users - sess[t].active_users,
                  role_distribution |-> RoleDistribution(heap)])
    /\ step' = <<t, "StatsRoles">>
    /\ UNCHANGED <<heap, seq, now, race>>

\* ----------------------------------------------------------- next state
\* One step of a request that writes a user: ids, creates and updates are the
\* ids and JSON bodies the requests are drawn from.
WriteRequest(t, ids, creates, updates) ==
    \/ \E b \in creates : CreateCheckUsername(t, b)
    \/ CreateCheckEmail(t)
    \/ CreateCommit(t)
    \/ \E id \in ids, b \in updates : UpdateLoad(t, id, b)
    \/ UpdateAssign(t)
    \/ UpdateCommit(t)
    \/ \E id \in ids : DeleteLoad(t, id)
    \/ DeleteCommit(t)

\* One step of a listing request.
ListRequest(t) ==
    \/ \E f \in Filters : ListCount(t, f)
    \/ \E page \in PageParams, per_page \in PerPageParams : ListFetch(t, page, per_page)

\* Two threads handling requests on single users.
Next ==
    \E t \in Threads :
        \/ \E id \in TargetIds : GetUser(t, id)
        \/ WriteRequest(t, TargetIds, CreateBodies, UpdateBodies)

Spec == Init /\ [][Next]_vars

\* The writes that listings are checked against: a new user, the first user
\* renamed or made an inactive moderator, the first user deleted.
QueryCreates == { b \in CreateBodies : b.username = "neo" /\ b.email = "neo@example.com" }
QueryUpdates == { b \in UpdateBodies : DOMAIN b \in { {"username"}, {"role", "is_active"} } }

\* One thread writing users while the other lists.  A listing statement and a
\* statement of the other thread that commits nothing commute (neither reads
\* what the other writes), so the listing's statements are taken between the
\* other thread's requests: every response a listing can give under any
\* interleaving is given under these.
NextQuery ==
    \/ WriteRequest("t1", {1}, QueryCreates, QueryUpdates)
    \/ (pc["t1"] = "idle" /\ ListRequest("t2"))

SpecQuery == Init /\ [][NextQuery]_vars

\* One step of a statistics request.
StatsRequest(t) ==
    \/ StatsTotal(t)
    \/ StatsActive(t)
    \/ StatsRoles(t)

\* One thread writing users while the other asks for the statistics; each
\* query of get_stats reads the rows committed when it runs.
NextStats ==
    \/ WriteRequest("t1", {1}, QueryCreates, QueryUpdates)
    \/ StatsRequest("t2")

SpecStats == Init /\ [][NextStats]_vars

\* The process from its first line: started by either script, over a database
\* that is empty or holds the users of an earlier run; once it serves, one
\* thread handles requests.
InitStartup ==
    /\ \E entry \in EntryPoints : proc = Started(entry, FALSE)
    /\ \E h \in {<< >>, sample_users} : heap = h /\ seq = Len(h)
    /\ now = 0
    /\ step = << >>
    /\ Quiet

NextStartup ==
    \/ Startup
    \/ \E id \in TargetIds : GetUser("t1", id)
    \/ WriteRequest("t1", {1}, QueryCreates, QueryUpdates)

SpecStartup == InitStartup /\ [][NextStartup]_vars

\* =================================================================== claims
ListResponse == resp.op = "list" /\ resp.status = 200

\* The users of the store that pass the filters of query q.
Passing(q) == { u \in Rows(heap) : Keep(u, q) }

\* C1: a listing returns exactly min(per_page, max(0, total - offset)) users,
\* where total is the number of stored users that pass the filters of the
\* request and offset = (page - 1) * per_page.
C1_PageSize ==
    ListResponse =>
        LET q == resp.req
            total == Cardinality(Passing(q))
            offset == (q.page - 1) * q.per_page
        IN Len(resp.users) = Min(q.per_page, Max(0, total - offset))

\* A listing that returned a last page holding a single user of two asked for.
C1_Witness ==
    /\ ListResponse
    /\ resp.req.per_page = 2
    /\ resp.req.page = 2
    /\ Len(resp.users) = 1

\* The least k with k * d >= n.
CeilDiv(n, d) == CHOOSE k \in 0..n : k * d >= n /\ \A j \in 0..n : j * d >= n => j >= k

\* C2: the pagination object of a listing has pages = ceil(total / per_page),
\* has_next = (page < pages) and has_prev = (page > 1); an empty filtered set
\* gives pages = 0 and no next page, and a page beyond the last page gives no
\* next page and a previous one.
C2_Pagination ==
    ListResponse =>
        LET p == resp.pagination
        IN /\ p.pages = CeilDiv(p.total, p.per_page)
           /\ p.has_next = (p.page < p.pages)
           /\ p.has_prev = (p.page > 1)
           /\ (p.total = 0 => p.pages = 0 /\ ~p.has_next)
           /\ (p.pages >= 1 /\ p.page > p.pages => ~p.has_next /\ p.has_prev)

\* A listing asked for a page beyond the last page of an odd number of users.
C2_Witness ==
    /\ ListResponse
    /\ resp.pagination.total % resp.pagination.per_page /= 0
    /\ resp.pagination.pages >= 1
    /\ resp.pagination.page > resp.pagination.pages

\* s occurs in t as a run of consecutive characters, letter case ignored.
Contains(t, s) ==
    LET tt == LowerText(Chars[t])
        ss == LowerText(Chars[s])
    IN \E i \in 1..(Len(tt) - Len(ss) + 1) : SubSeq(tt, i, i + Len(ss) - 1) = ss

\* The filters as the search is described: a case-insensitive substring test.
KeepBySubstring(u, q) ==
    /\ \/ Contains(u.username, q.search)
       \/ Contains(u.email, q.search)
       \/ Contains(u.full_name, q.search)
    /\ (q.role /= "" => u.role = q.role)
    /\ (q.is_active /= None => u.is_active = ActiveBool(q.is_active[1]))

\* C3: a listing with search = s selects exactly the users whose username,
\* email or full_name contains s as a case-insensitive substring (all users
\* when s is empty), for every s, "%" and "_" included: the count query counts
\* exactly those users and every user returned is one of them.
C3_SearchIsSubstring ==
    /\ \A t \in Threads :
        step = <<t, "ListCount">> =>
            sess[t].total = Cardinality({ u \in Rows(heap) : KeepBySubstring(u, req[t]) })
    /\ ListResponse =>
        \A i \in DOMAIN resp.users :
            \E u \in Rows(heap) : u.id = resp.users[i].id /\ KeepBySubstring(u, resp.req)

\* The rows of h in the order they were inserted: ids come from a sequence.
ByInsertion(h) == SortSeq(h, LAMBDA u, v : u.id < v.id)

\* C10: a listing returns the users at positions offset+1 .. offset+per_page of
\* the filtered set taken in insertion order.
C10_InsertionOrder ==
    ListResponse =>
        LET q == resp.req
            expected == OffsetLimit(SelectSeq(ByInsertion(heap), LAMBDA u : Keep(u, q)),
                                    (q.page - 1) * q.per_page, q.per_page)
        IN [i \in DOMAIN resp.users |-> resp.users[i].id]
           = [i \in DOMAIN expected |-> expected[i].id]

\* The search and role filters of the listing, as get_users applies them.
SearchAndRole(u, q) ==
    /\ (q.search /= "" => SearchFilter(u, q.search))
    /\ (q.role /= "" => u.role = q.role)

\* is_active absent: every user; "true": the active users; any other value:
\* the users that are not active.
ActiveAsStated(active, a) ==
    \/ a = None
    \/ a /= None /\ a[1] = "true" /\ active = TRUE
    \/ a /= None /\ a[1] /= "true" /\ active = FALSE

\* v is the word true in some mix of small and capital letters.
SpellsTrue(v) ==
    /\ Len(Chars[v]) = 4
    /\ Chars[v][1] \in {"t", "T"}
    /\ Chars[v][2] \in {"r", "R"}
    /\ Chars[v][3] \in {"u", "U"}
    /\ Chars[v][4] \in {"e", "E"}

\* As ActiveAsStated, the value read without regard to letter case.
ActiveIgnoringCase(active, a) ==
    \/ a = None
    \/ a /= None /\ SpellsTrue(a[1]) /\ active = TRUE
    \/ a /= None /\ ~SpellsTrue(a[1]) /\ active = FALSE

\* C12 as stated: is_active absent applies no filter, the value "true" keeps
\* the active users and any other value the users that are not active; the
\* filter is combined by AND with the search and role filters, and total
\* counts the users left after all of them.
C12_ActiveTriState ==
    /\ \A t \in Threads :
        step = <<t, "ListCount">> =>
            sess[t].total =
                Cardinality({ u \in Rows(heap) : /\ SearchAndRole(u, req[t])
                                                 /\ ActiveAsStated(u.is_active, req[t].is_active) })
    /\ ListResponse =>
        \A i \in DOMAIN resp.users :
            ActiveAsStated(resp.users[i].is_active, resp.req.is_active)

\* C12, amended: the value of is_active is read without regard to letter case:
\* "true", "TRUE", "True" keep the active users, any other value the users that
\* are not active, absent applies no filter; combined by AND with the search
\* and role filters, and total counts the users left after all of them.
C12_ActiveTriStateIgnoringCase ==
    /\ \A t \in Threads :
        step = <<t, "ListCount">> =>
            sess[t].total =
                Cardinality({ u \in Rows(heap) : /\ SearchAndRole(u, req[t])
                                                 /\ ActiveIgnoringCase(u.is_active, req[t].is_active) })
    /\ ListResponse =>
        \A i \in DOMAIN resp.users :
            ActiveIgnoringCase(resp.users[i].is_active, resp.req.is_active)

\* A listing with is_active=TRUE returned users while a user that is not
\* active is stored.
C12_Witness ==
    /\ ListResponse
    /\ resp.req.is_active = Some("TRUE")
    /\ Len(resp.users) > 0
    /\ \E u \in Rows(heap) : ~u.is_active

RECURSIVE SumCounts(_, _)
\* The sum of the counts d gives the roles.
SumCounts(d, roles) ==
    IF roles = {} THEN 0
    ELSE LET r == CHOOSE x \in roles : TRUE
         IN d[r] + SumCounts(d, roles \ {r})

StatsResponse == resp.op = "stats" /\ resp.status = 200

\* C13: every statistics response is a snapshot of one store state, also when
\* writes commit between its queries: the role counts sum to total_users,
\* active_users <= total_users, and inactive_users is >= 0 and is the number
\* of stored users that are not active.
C13_StatsSnapshot ==
    StatsResponse =>
        /\ SumCounts(resp.role_distribution, DOMAIN resp.role_distribution) = resp.total_users
        /\ resp.active_users <= resp.total_users
        /\ resp.inactive_users = resp.total_users - resp.active_users
        /\ resp.inactive_users >= 0
        /\ resp.inactive_users = Cardinality({ u \in Rows(heap) : ~u.is_active })

\* C11: the server serves only in a process in which create_tables has
\* completed and, when startup.py started it, the connectivity test has passed;
\* a connectivity test that returns false or raises, and an initialisation that
\* raises, end the process with status 1; a process that has not come to
\* serve, or has ended, handles no request.
C11_StartupGate ==
    /\ Serving => /\ proc.init = "done"
                  /\ proc.entry = "startup.py" => proc.test = "true"
                  /\ step = <<"main", "AppRun">> => Len(heap) > 0
                  /\ proc.exit = None
    /\ proc.test \in {"false", "raises"} \/ proc.init = "raises" => proc.phase = "exited"
    /\ proc.phase = "exited" => proc.exit = Some(1)
    /\ ~Serving => Quiet

\* The server, started by startup.py, has answered a request.
C11_Witness ==
    /\ Serving
    /\ proc.entry = "startup.py"
    /\ proc.test = "true"
    /\ resp.status = 200

\* The JSON body of the create request thread t has just taken a step of.
CreateBody(t) == IF resp.op = "create" THEN resp.req.body ELSE req[t].body

\* The id named by the request thread t has just taken a step of.
NamedId(t) == IF resp.op /= "none" THEN resp.req.id ELSE req[t].id

Conflict(msg) ==
    /\ resp.op = "create"
    /\ resp.status = 400
    /\ resp.error = msg

C5_Unique ==
    \A i, j \in DOMAIN heap :
        i /= j => /\ heap[i].id /= heap[j].id
                  /\ heap[i].username /= heap[j].username
                  /\ heap[i].email /= heap[j].email

\* An update that asked for another user's email was refused by the store.
C5_Witness ==
    /\ resp.op = "update"
    /\ resp.status = 500
    /\ resp.error = "IntegrityError"
    /\ \E u \in Rows(heap) : u.id /= resp.req.id /\ u.email = resp.req.body.email

Done(t) == race[t].st = "done"

\* C6: of two creates with the same username or email that both passed the
\* lookups before either committed, exactly one inserts a row and is answered
\* 201; the other is answered with an error and inserts nothing, and the store
\* holds exactly one row with the shared value.
C6_OneWinner ==
    \A t \in Threads :
        LET o == Other(t)
        IN /\ Done(t) /\ race[t].status = 201 => race[t].inserted
           /\ Done(t) /\ race[t].status /= 201 => race[t].status >= 400 /\ ~race[t].inserted
           /\ Done(t) /\ Done(o) =>
                /\ (race[t].status = 201) /= (race[o].status = 201)
                /\ race[t].username = race[o].username =>
                     Cardinality({ u \in Rows(heap) : u.username = race[t].username }) = 1
                /\ race[t].email = race[o].email =>
                     Cardinality({ u \in Rows(heap) : u.email = race[t].email }) = 1

\* Both racing creates have been answered, one of them with 500.
C6_Witness ==
    \E t \in Threads :
        /\ Done(t) /\ Done(Other(t))
        /\ race[t].status = 500
        /\ race[t].username = race[Other(t)].username

\* C7: a successful update changes only the fields its body names and
\* updated_at, leaves every other row as it was, and makes the row's
\* updated_at strictly greater than it was.
C7_UpdateFrame ==
    [][\A t \in Threads :
        step' = <<t, "UpdateCommit">> /\ resp'.status = 200 =>
            LET id == resp'.req.id
                old == RowOf(heap, id)
                new == RowOf(heap', id)
            IN /\ \A f \in DOMAIN old \ (DOMAIN resp'.req.body \cup {"updated_at"}) :
                    new[f] = old[f]
               /\ new.id = old.id
               /\ new.created_at = old.created_at
               /\ Rows(heap') \ {new} = Rows(heap) \ {old}
               /\ new.updated_at > old.updated_at
      ]_vars

CommitSteps == {"CreateCommit", "UpdateCommit", "DeleteCommit"}

\* C8: a create, update or delete that is answered 500 leaves the stored rows
\* as they were: only the last statement of a request changes rows, and only
\* when it is answered 200 or 201; an answered request leaves nothing pending
\* in its session for a later request to commit.
C8_ErrorChangesNothing ==
    [][/\ resp'.status = 500 => heap' = heap
       /\ heap' /= heap => step'[2] \in CommitSteps /\ resp'.status \in {200, 201}
       /\ \A t \in Threads : pc'[t] = "idle" => sess'[t] = NoSess /\ req'[t] = NoReq
      ]_vars

\* An update naming username and email was refused for its email, and the row
\* has neither the new username nor a new updated_at.
C8_Witness ==
    /\ resp.op = "update"
    /\ resp.status = 500
    /\ DOMAIN resp.req.body = {"username", "email"}
    /\ \E u \in Rows(heap) :
          /\ u.id = resp.req.id
          /\ u.username /= resp.req.body.username
          /\ u.updated_at = 0

\* C9: GET, PUT and DELETE on an id no stored user has are answered 404 and
\* leave the rows unchanged; the commit of a DELETE of a stored id removes
\* exactly that row.
C9_NotFound ==
    [][\A t \in Threads :
        /\ ( /\ step' \in { <<t, "GetUser">>, <<t, "UpdateLoad">>, <<t, "DeleteLoad">> }
             /\ NamedId(t)' \notin Ids(heap)
             => resp'.status = 404 /\ heap' = heap )
        /\ ( /\ step' = <<t, "DeleteCommit">>
             /\ req[t].id \in Ids(heap)
             => /\ resp'.status = 200
                /\ Len(heap') = Len(heap) - 1
                /\ Rows(heap') = Rows(heap) \ {RowOf(heap, req[t].id)} )
      ]_vars

\* A DELETE of an id no user has was answered 404.
C9_Witness ==
    /\ resp.op = "delete"
    /\ resp.status = 404
    /\ resp.req.id \notin Ids(heap)

====
